---- MODULE Spec2Model ----
(***************************************************************************)
(* Model of the webhook printer server (src/webhook_printer_server.py):    *)
(* the poll / filter / dedup / advance loop of main(), with the helpers it *)
(* calls (parse_webhook_timestamp, is_valid_post_json_message,             *)
(* extract_message, print_message, get_last_timestamp, save_timestamp).    *)
(*                                                                         *)
(* Instants are integers (one unit = one minute).  Strings the program     *)
(* parses are records that keep what the parser looks at: a timestamp      *)
(* string keeps its format, its wall-clock reading and its UTC offset; a   *)
(* body keeps whether it is a str and what json.loads makes of it.         *)
(***************************************************************************)
EXTENDS Integers, Sequences, FiniteSets, TLC

VARIABLES
    pc,                     \* position of main(): "stopped", "fetch", "iterate", "sleep"
    last_timestamp,         \* main's local last_timestamp (an instant)
    most_recent_timestamp,  \* main's local most_recent_timestamp
    requests_list,          \* the batch being iterated
    idx,                    \* 1-based position of the for loop in requests_list
    timestamp_file,         \* content of args.timestamp_file on disk
    \* ---- history (observation only; the program never reads these) ----
    iter_start,             \* last_timestamp when the current iteration fetched
    fetch_status,           \* how the current iteration's fetch ended
    sent,                   \* print_message calls of the current iteration, in order
    writes,                 \* save_timestamp calls of the current iteration
    aborted,                \* the current iteration ended in "except Exception"
    cancelled,              \* the run was ended by KeyboardInterrupt
    started_with,           \* {} or {[start_from, now]}: args.start_from and
                            \* the clock of the startup that has just ended
    observing,              \* whether the four observations below are kept
                            \* (constant in a behaviour; they stay as Init
                            \* leaves them when it is FALSE)
    run_wrote,              \* the file content was written by the current run
    last_written,           \* {} or {the instant most recently written to the
                            \* file, by any run}; {} for good once a run is
                            \* started with --start-from
    overridden,             \* some run was started with --start-from
    fetched,                \* the events list of the current iteration's response
                            \* when that response was a top-level array
    skipped,                \* {} or {the earliest newer forwardable event of a
                            \* fetched batch of this run that an aborted iteration
                            \* left without a print_message call}
    following,              \* whether the observation below is kept (constant
                            \* in a behaviour)
    persisted,              \* {} or {[batch, again]}: batch is the events list
                            \* whose advance step wrote the file, the run was
                            \* stopped in the sleep after it and started again
                            \* without --start-from; again says that the first
                            \* fetch of that run has returned the same list
    \* ---- a second process running main() on the same timestamp file ----
    upstream,               \* the events list the service holds for the token
    pc2,                    \* position of the second main()
    last_timestamp2,        \* its local last_timestamp
    most_recent_timestamp2, \* its local most_recent_timestamp
    requests_list2,         \* its local requests_list
    idx2,                   \* position of its for loop
    sent2,                  \* (history) positions of requests_list2 handed to
                            \* print_message in its current iteration
    \* ---- a helper called on its own ----
    call                    \* the latest call: function, arguments, outcome

vars == <<pc, last_timestamp, most_recent_timestamp, requests_list, idx,
          timestamp_file, iter_start, fetch_status, sent, writes,
          aborted, cancelled, started_with, observing, run_wrote, last_written, overridden,
          fetched, skipped, following, persisted,
          upstream, pc2, last_timestamp2, most_recent_timestamp2,
          requests_list2, idx2, sent2, call>>

\* the second process and the service's list
second == <<upstream, pc2, last_timestamp2, most_recent_timestamp2,
            requests_list2, idx2, sent2>>

\* the first process, without the timestamp file
first == <<pc, last_timestamp, most_recent_timestamp, requests_list, idx,
           iter_start, fetch_status, sent, writes, aborted, cancelled,
           started_with, observing, run_wrote, last_written, overridden,
           fetched, skipped, following, persisted>>

----------------------------------------------------------------------------
(* Bounds of the model *)

\* instants of events range over 1..MaxTime
MaxTime == 3
\* longest events list in one response
MaxBatch == 2
\* longest message text handed to print_message on its own
MaxText == 5

(* Program constants *)

\* datetime(2000, 1, 1, tzinfo=timezone.utc): the fallback of parse_webhook_timestamp
Sentinel == 0
\* timedelta(minutes=1): the lookback of the default start
Lookback == 1
\* --max-length default
DefaultMaxLength == 255

Times == 0..MaxTime
\* main's local max_length: the command line of the model gives neither
\* --max-length nor --no-truncate
max_length == DefaultMaxLength

Max(a, b) == IF a >= b THEN a ELSE b

----------------------------------------------------------------------------
(* Timestamp strings *)

\* fmt: "space"  YYYY-MM-DD HH:MM:SS
\*      "T"      YYYY-MM-DDTHH:MM:SS
\*      "TZ"     YYYY-MM-DDTHH:MM:SSZ
\*      "Toff"   YYYY-MM-DDTHH:MM:SS+hh:mm  (off = the offset)
\*      "bad"    anything no branch can parse (also the empty string)
\*      "none"   no created_at key (req.get returns None)
TsStr(fmt, t, off) == [fmt |-> fmt, t |-> t, off |-> off]
TsSpace(t) == TsStr("space", t, 0)
TsBad == TsStr("bad", 0, 0)
TsNone == TsStr("none", 0, 0)

\* datetime.isoformat() of an aware UTC datetime: "...T...+00:00"
isoformat(t) == TsStr("Toff", t, 0)

parse_webhook_timestamp(s) ==
    IF s.fmt \in {"TZ", "T"} THEN s.t
    ELSE IF s.fmt = "Toff" THEN s.t - s.off
    ELSE IF s.fmt = "space" THEN s.t
    ELSE Sentinel

----------------------------------------------------------------------------
(* Timestamp file *)

FileAbsent == [exists |-> FALSE, text |-> TsBad]
FileText(s) == [exists |-> TRUE, text |-> s]
\* what open(..., 'w') leaves when nothing reaches the disk after it
FileEmpty == FileText(TsBad)

\* (mutant) the timestamp file is never read back
get_last_timestamp_unread(file) == {}

\* {} is None
get_last_timestamp(file) ==
    IF ~file.exists THEN {}
    ELSE IF file.text.fmt = "Toff" THEN {file.text.t - file.text.off}
    ELSE IF file.text.fmt \in {"TZ", "T", "space"} THEN {file.text.t}
    ELSE {}

\* the outcomes of save_timestamp(file, timestamp): the record is written, or
\* open() raises and the file is as before, or open() has truncated the file
\* and the write or the flush raises
SaveOutcomes == {"written", "open_failed", "write_failed"}

save_timestamp(file, timestamp, outcome) ==
    IF outcome = "written" THEN FileText(isoformat(timestamp))
    ELSE IF outcome = "open_failed" THEN file
    ELSE FileEmpty

----------------------------------------------------------------------------
(* Requests *)

\* a JSON value found under "message"
StrVal(s) == [type |-> "str", str |-> s, num |-> 0]
NumVal(n) == [type |-> "num", str |-> <<>>, num |-> n]
NoneVal == [type |-> "none", str |-> <<>>, num |-> 0]

\* what json.loads makes of a body
JsonInvalid == [type |-> "invalid", has_message |-> FALSE, message |-> NoneVal]
JsonArray == [type |-> "array", has_message |-> FALSE, message |-> NoneVal]
JsonObject(v) == [type |-> "object", has_message |-> TRUE, message |-> v]
JsonNote == [type |-> "object", has_message |-> FALSE, message |-> NoneVal]

\* a value under "content" or "body": missing key, a str, or an already parsed value
NoKey == [kind |-> "missing", empty |-> TRUE, json |-> JsonInvalid]
StrBody(j) == [kind |-> "str", empty |-> FALSE, json |-> j]
EmptyStr == [kind |-> "str", empty |-> TRUE, json |-> JsonInvalid]
Parsed(j) == [kind |-> "parsed", empty |-> FALSE, json |-> j]

\* a value under "method": missing key, a str, or something that is no str
MethodStr(s) == [kind |-> "str", val |-> s]
MethodMissing == [kind |-> "missing", val |-> ""]
MethodNull == [kind |-> "other", val |-> ""]

Request(m, c, b, ts) == [method |-> m, content |-> c, body |-> b, created_at |-> ts]

hi == <<"h", "i">>

\* the (method, content) shapes the engine is fed
Shapes ==
    { <<MethodStr("POST"), StrBody(JsonObject(StrVal(hi)))>>,   \* eligible
      <<MethodStr("GET"),  StrBody(JsonObject(StrVal(hi)))>>,   \* wrong method
      <<MethodStr("POST"), StrBody(JsonNote)>>,                 \* no "message"
      <<MethodNull,        StrBody(JsonObject(StrVal(hi)))>>,   \* "method": null
      <<MethodStr("POST"), StrBody(JsonObject(NumVal(5)))>> }   \* "message": 5

CreatedAts == {TsSpace(t) : t \in 1..MaxTime} \cup {TsBad}

Events == {Request(sh[1], sh[2], NoKey, ts) : sh \in Shapes, ts \in CreatedAts}

RECURSIVE SeqsUpTo(_, _)
SeqsUpTo(S, n) ==
    IF n = 0 THEN {<<>>}
    ELSE LET shorter == SeqsUpTo(S, n - 1)
         IN  shorter \cup {Append(q, e) : q \in {x \in shorter : Len(x) = n - 1}, e \in S}

Batches == SeqsUpTo(Events, MaxBatch)

----------------------------------------------------------------------------
(* is_valid_post_json_message / extract_message / print_message *)

\* str.upper() on the method strings that occur
upper(s) == IF s = "post" THEN "POST" ELSE IF s = "get" THEN "GET" ELSE s

\* request.get('content', request.get('body', ''))
body_of(request) ==
    IF request.content.kind # "missing" THEN request.content
    ELSE IF request.body.kind # "missing" THEN request.body
    ELSE EmptyStr

\* request.get('method', '').upper() raises AttributeError, before the try
method_raises(request) == request.method.kind = "other"

\* the value returned when the call does not raise
is_valid_post_json_message(request) ==
    /\ upper(request.method.val) = "POST"
    /\ ~body_of(request).empty
    /\ body_of(request).json.type = "object"
    /\ body_of(request).json.has_message

\* body_data.get('message', ''); None when json.loads or .get raises
extract_message(request) ==
    LET j == body_of(request).json
    IN  IF j.type # "object" THEN NoneVal
        ELSE IF j.has_message THEN j.message
        ELSE StrVal(<<>>)

\* "if message:"
truthy(v) == \/ v.type = "str" /\ v.str # <<>>
             \/ v.type = "num" /\ v.num # 0

\* len(message) in the log line before the inner try raises TypeError
len_raises(v) == v.type = "num"

\* s[:k] of Python
slice_to(s, k) ==
    IF k >= 0 THEN SubSeq(s, 1, IF k < Len(s) THEN k ELSE Len(s))
    ELSE SubSeq(s, 1, Max(0, Len(s) + k))

\* message_to_print of print_message
print_message(message, maxlen) ==
    IF maxlen > 0 /\ Len(message) > maxlen
    THEN slice_to(message, maxlen - 3) \o <<".", ".", ".">>
    ELSE message

\* no helper has been called on its own
NoCall == [fn |-> "none"]

----------------------------------------------------------------------------
(* main: the places where control goes on an error *)

\* (mutants) the exception leaves the while loop and ends the process
on_api_error_fatal == "stopped"
on_exception_fatal == "stopped"

\* "except requests.RequestException": log, then the sleep of line 281
on_api_error == "sleep"
\* "except Exception": log, then the sleep of line 281
on_exception == "sleep"

\* (mutant) only strictly older events are taken as processed
already_processed_strict(created_at, last) == created_at < last

\* "if created_at <= last_timestamp: continue"
already_processed(created_at, last) == created_at <= last

\* (mutant) the advance step saves whether or not an event was newer
must_advance_always(most_recent, last) == TRUE

\* "if most_recent_timestamp > last_timestamp" of the advance step
must_advance(most_recent, last) == most_recent > last

\* what requests.get / raise_for_status / response.json() give:
\*   "error"     a requests.RequestException (transport, non-2xx)
\*   "envelope"  {"data": [...]}
\*   "object"    a JSON object without "data"
\*   "array"     a top-level array [...]
\*   "scalar"    any other JSON value (a string, a number, null)
Responses ==
    {[kind |-> k, data |-> <<>>] : k \in {"error", "object", "scalar"}}
    \cup {[kind |-> k, data |-> b] : k \in {"envelope", "array"}, b \in Batches}

\* data.get('data', data if isinstance(data, list) else []): the receiver of
\* .get is data itself, so a list (or a scalar) raises AttributeError
normalize_raises(resp) == resp.kind \in {"array", "scalar"}
normalize(resp) == IF resp.kind = "envelope" THEN resp.data ELSE <<>>

----------------------------------------------------------------------------
(* Observation: which events are owed a print_message call *)

created_at_of(request) == parse_webhook_timestamp(request.created_at)

\* the request would be handed to print_message by the loop body
reaches_sink(request) ==
    /\ ~method_raises(request)
    /\ is_valid_post_json_message(request)
    /\ truthy(extract_message(request))
    /\ ~len_raises(extract_message(request))

\* the loop body raises on this request
raises(request) ==
    \/ method_raises(request)
    \/ /\ is_valid_post_json_message(request)
       /\ truthy(extract_message(request))
       /\ len_raises(extract_message(request))

has_created_at(request) == request.created_at.fmt # "none"

newer(request, wm) ==
    has_created_at(request) /\ ~already_processed(created_at_of(request), wm)

\* the newer forwardable events of b at positions from..Len(b)
Owed(b, from, wm) ==
    {b[k] : k \in {j \in from..Len(b) : newer(b[j], wm) /\ reaches_sink(b[j])}}

\* S cut down to its earliest event
Earliest(S) ==
    IF S = {} THEN {}
    ELSE {CHOOSE e \in S : \A f \in S : created_at_of(e) <= created_at_of(f)}

\* an observation is updated only in behaviours that keep it
Kept(new, old) == IF observing THEN new ELSE old
Followed(new, old) == IF following THEN new ELSE old

----------------------------------------------------------------------------
(* main *)

InitWith(obs) ==
    /\ observing = obs
    /\ pc = "stopped"
    /\ timestamp_file \in {FileAbsent, FileEmpty} \cup {FileText(isoformat(t)) : t \in Times}
    /\ last_timestamp = 0
    /\ most_recent_timestamp = 0
    /\ requests_list = <<>>
    /\ idx = 1
    /\ iter_start = 0
    /\ fetch_status = "none"
    /\ sent = <<>>
    /\ writes = 0
    /\ aborted = FALSE
    /\ cancelled = FALSE
    /\ started_with = {}
    /\ run_wrote = FALSE
    /\ last_written = {}
    /\ overridden = FALSE
    /\ fetched = <<>>
    /\ skipped = {}
    /\ persisted = {}
    /\ upstream = <<>>
    /\ pc2 = "stopped"
    /\ last_timestamp2 = 0
    /\ most_recent_timestamp2 = 0
    /\ requests_list2 = <<>>
    /\ idx2 = 1
    /\ sent2 = <<>>
    /\ call = NoCall

\* --start-from values: not given, YYYY-MM-DDTHH:MM:SS, or unparsable
StartFroms == {TsNone, TsBad} \cup {TsStr("T", t, 0) : t \in (0 - 1)..MaxTime}

\* datetime.now(timezone.utc) at startup
Clock == Lookback..(MaxTime + Lookback)

\* (mutant) the persisted watermark comes before --start-from
initial_timestamp_file_first(start_from, file, now) ==
    IF get_last_timestamp(file) # {}
    THEN CHOOSE t \in get_last_timestamp(file) : TRUE
    ELSE IF start_from.fmt # "none" THEN parse_webhook_timestamp(start_from)
    ELSE now - Lookback

\* lines 171-188: the starting cursor
initial_timestamp(start_from, file, now) ==
    IF start_from.fmt # "none" THEN parse_webhook_timestamp(start_from)
    ELSE IF get_last_timestamp(file) # {}
         THEN CHOOSE t \in get_last_timestamp(file) : TRUE
         ELSE now - Lookback

\* the locals and the observations of one iteration, as a fetch finds them
IterationReset ==
    /\ most_recent_timestamp' = last_timestamp'
    /\ requests_list' = <<>>
    /\ idx' = 1
    /\ iter_start' = last_timestamp'
    /\ fetch_status' = "none"
    /\ sent' = <<>>
    /\ writes' = 0
    /\ aborted' = FALSE
    /\ fetched' = <<>>

\* lines 153-193: a run starts
Start ==
    /\ pc = "stopped"
    /\ \E start_from \in StartFroms, now \in Clock :
        /\ last_timestamp' = initial_timestamp(start_from, timestamp_file, now)
        /\ started_with' = {[start_from |-> start_from, now |-> now]}
        /\ overridden' = Kept(overridden \/ start_from.fmt # "none", overridden)
        /\ last_written' = Kept(IF start_from.fmt # "none" THEN {} ELSE last_written,
                                last_written)
        /\ persisted' = IF start_from.fmt # "none" THEN {} ELSE persisted
    /\ pc' = "fetch"
    /\ IterationReset
    /\ cancelled' = FALSE
    /\ run_wrote' = FALSE
    /\ skipped' = {}
    /\ UNCHANGED <<timestamp_file, observing, following>>
    /\ UNCHANGED <<second, call>>

\* lines 197-216: one fetch
Fetch ==
    /\ pc = "fetch"
    /\ \E resp \in Responses :
        /\ fetch_status' = resp.kind
        /\ fetched' = Kept(IF resp.kind = "array" THEN resp.data ELSE <<>>, fetched)
        /\ persisted' = {[batch |-> p.batch, again |-> TRUE] :
                            p \in {q \in persisted : resp.kind = "envelope"
                                                     /\ resp.data = q.batch}}
        /\ IF resp.kind = "error"
           THEN /\ pc' = on_api_error
                /\ requests_list' = <<>>
                /\ aborted' = FALSE
                /\ skipped' = skipped
           ELSE IF normalize_raises(resp)
           THEN /\ pc' = on_exception
                /\ requests_list' = <<>>
                /\ aborted' = TRUE
                /\ skipped' = Kept(Earliest(skipped \cup Owed(resp.data, 1, last_timestamp)), skipped)
           ELSE /\ requests_list' = normalize(resp)
                /\ pc' = IF normalize(resp) = <<>> THEN "sleep" ELSE "iterate"
                /\ aborted' = FALSE
                /\ skipped' = skipped
    /\ most_recent_timestamp' = last_timestamp
    /\ idx' = 1
    /\ iter_start' = last_timestamp
    /\ sent' = <<>>
    /\ writes' = 0
    /\ started_with' = {}
    /\ UNCHANGED <<last_timestamp, timestamp_file, cancelled, observing,
                   run_wrote, last_written, overridden, following>>
    /\ UNCHANGED <<second, call>>

\* lines 219-263: the loop body on requests_list[idx]
Iterate ==
    /\ pc = "iterate"
    /\ idx <= Len(requests_list)
    /\ LET req == requests_list[idx]
           created_at == created_at_of(req)
           message == extract_message(req)
       IN  IF ~has_created_at(req) \/ already_processed(created_at, last_timestamp)
           THEN /\ idx' = idx + 1
                /\ UNCHANGED <<pc, most_recent_timestamp, sent, aborted, skipped>>
           ELSE /\ most_recent_timestamp' = Max(created_at, most_recent_timestamp)
                /\ IF raises(req)
                   THEN /\ pc' = on_exception
                        /\ aborted' = TRUE
                        /\ skipped' = Kept(Earliest(skipped \cup Owed(requests_list, idx + 1,
                                                                    last_timestamp)), skipped)
                        /\ UNCHANGED <<idx, sent>>
                   ELSE IF is_valid_post_json_message(req) /\ truthy(message)
                   THEN /\ \E ok \in BOOLEAN :
                            sent' = Append(sent, [idx |-> idx,
                                                  text |-> print_message(message.str, max_length),
                                                  ok |-> ok])
                        /\ idx' = idx + 1
                        /\ skipped' = Kept(skipped \ {req}, skipped)
                        /\ UNCHANGED <<pc, aborted>>
                   ELSE /\ idx' = idx + 1
                        /\ UNCHANGED <<pc, sent, aborted, skipped>>
    /\ UNCHANGED <<last_timestamp, requests_list, timestamp_file,
                   iter_start, fetch_status, writes, cancelled, observing,
                   run_wrote, last_written, overridden, fetched,
                   following, persisted, started_with>>
    /\ UNCHANGED <<second, call>>

\* lines 265-270: after the loop
Advance ==
    /\ pc = "iterate"
    /\ idx > Len(requests_list)
    /\ IF must_advance(most_recent_timestamp, last_timestamp)
       THEN /\ last_timestamp' = most_recent_timestamp
            /\ \E outcome \in SaveOutcomes :
                /\ timestamp_file' = save_timestamp(timestamp_file, most_recent_timestamp, outcome)
                /\ pc' = IF outcome = "written" THEN "sleep" ELSE on_exception
                /\ aborted' = (outcome # "written")
                /\ run_wrote' = Kept(IF outcome = "written" THEN TRUE
                                     ELSE IF outcome = "write_failed" THEN FALSE
                                     ELSE run_wrote, run_wrote)
                /\ last_written' = Kept(IF outcome = "written" /\ ~overridden
                                       THEN {most_recent_timestamp}
                                       ELSE last_written, last_written)
                /\ persisted' = IF persisted # {} THEN persisted
                                ELSE IF outcome = "written"
                                THEN Followed({[batch |-> requests_list, again |-> FALSE]}, {})
                                ELSE {}
            /\ writes' = writes + 1
       ELSE /\ pc' = "sleep"
            /\ UNCHANGED <<last_timestamp, timestamp_file, aborted, run_wrote,
                           last_written, writes, persisted>>
    /\ UNCHANGED <<most_recent_timestamp, requests_list, idx,
                   iter_start, fetch_status, sent, cancelled, observing,
                   overridden, fetched, skipped, following, started_with>>
    /\ UNCHANGED <<second, call>>

\* line 281: time.sleep(args.check_interval), then the next "while True"
\* round; args.check_interval is taken to be no negative number
Sleep ==
    /\ pc = "sleep"
    /\ pc' = "fetch"
    /\ UNCHANGED <<last_timestamp, timestamp_file, cancelled, observing,
                   run_wrote, last_written, overridden, skipped, following,
                   started_with>>
    /\ UNCHANGED <<second, call>>
    /\ persisted' = {}
    /\ IterationReset

\* lines 283-284: KeyboardInterrupt, wherever the loop is
Interrupt ==
    /\ pc \in {"fetch", "iterate", "sleep"}
    /\ pc' = "stopped"
    /\ cancelled' = TRUE
    /\ UNCHANGED <<last_timestamp, timestamp_file, observing, run_wrote,
                   last_written, overridden, skipped, following>>
    /\ persisted' = {p \in persisted : pc = "sleep" /\ ~p.again}
    /\ started_with' = {}
    /\ UNCHANGED <<second, call>>
    /\ IterationReset

Next == Start \/ Fetch \/ Iterate \/ Advance \/ Sleep \/ Interrupt

Init == InitWith(FALSE) /\ following = FALSE
InitObserved == InitWith(TRUE) /\ following = FALSE
InitRestart == InitWith(FALSE) /\ following = TRUE

\* the engine, with the observations of one iteration
Spec == Init /\ [][Next]_vars

\* the engine, with the observations that span iterations and runs as well
SpecObserved == InitObserved /\ [][Next]_vars

\* the engine, with the observation of a batch that is fetched again after a
\* restart
SpecRestart == InitRestart /\ [][Next]_vars

----------------------------------------------------------------------------
(* The helpers, called on their own *)

\* message texts, and the max_length values around their lengths
Texts == SeqsUpTo({"a", "b"}, MaxText)
Limits == (0 - 1)..(MaxText + 1)

\* print_message(text, print_args, limit), as far as the string it hands to
\* print-text.py
CallPrintMessage ==
    /\ pc = "stopped"
    /\ \E text \in Texts, limit \in Limits :
        call' = [fn |-> "print_message", message |-> text, max_length |-> limit,
                 result |-> print_message(text, limit)]
    /\ UNCHANGED <<first, second, timestamp_file>>

\* the requests is_valid_post_json_message is called with on its own
CallMethods == {MethodStr("POST"), MethodStr("post"), MethodStr("GET"),
                MethodMissing, MethodNull}
CallContents == {NoKey, EmptyStr, StrBody(JsonInvalid), StrBody(JsonArray),
                 StrBody(JsonNote), StrBody(JsonObject(StrVal(hi))),
                 StrBody(JsonObject(NumVal(5))), StrBody(JsonObject(NoneVal)),
                 Parsed(JsonObject(StrVal(hi))), Parsed(JsonArray)}
CallBodies == {NoKey, EmptyStr, StrBody(JsonObject(StrVal(hi)))}
CallRequests ==
    {Request(m, c, b, TsSpace(1)) : m \in CallMethods, c \in CallContents,
                                    b \in CallBodies}

\* is_valid_post_json_message(request): it raises, or returns a value
CallIsValid ==
    /\ pc = "stopped"
    /\ \E request \in CallRequests :
        call' = [fn |-> "is_valid_post_json_message", request |-> request,
                 raised |-> method_raises(request),
                 result |-> IF method_raises(request) THEN FALSE
                            ELSE is_valid_post_json_message(request)]
    /\ UNCHANGED <<first, second, timestamp_file>>

NextCalls == CallPrintMessage \/ CallIsValid
SpecCalls == Init /\ [][NextCalls]_vars

\* the engine's own steps are taken whenever they can be: the interpreter runs
\* the loop, requests.get and subprocess.run return, time.sleep ends
FairSpec == Spec /\ WF_vars(Fetch \/ Iterate \/ Advance \/ Sleep)

----------------------------------------------------------------------------
(* Two processes running main() against one timestamp file *)

\* the events the service is sent while two processes poll it: well-formed
\* POST and GET requests, stamped by the service in arrival order
UpstreamEvents ==
    {e \in Events : /\ e.created_at.fmt = "space"
                    /\ e.method.kind = "str"
                    /\ reaches_sink(e) \/ ~is_valid_post_json_message(e)}

\* the created_at of the event the service's list ends with
LastArrival == IF upstream = <<>> THEN Sentinel
               ELSE created_at_of(upstream[Len(upstream)])

\* the first process has been started without --start-from on a readable
\* timestamp file and is about to fetch
InitConcurrent ==
    /\ observing = FALSE
    /\ following = FALSE
    /\ pc = "fetch"
    /\ timestamp_file \in {FileText(isoformat(t)) : t \in Times}
    /\ last_timestamp = initial_timestamp(TsNone, timestamp_file, Lookback)
    /\ most_recent_timestamp = last_timestamp
    /\ requests_list = <<>>
    /\ idx = 1
    /\ iter_start = last_timestamp
    /\ fetch_status = "none"
    /\ sent = <<>>
    /\ writes = 0
    /\ aborted = FALSE
    /\ cancelled = FALSE
    /\ started_with = {}
    /\ run_wrote = FALSE
    /\ last_written = {}
    /\ overridden = FALSE
    /\ fetched = <<>>
    /\ skipped = {}
    /\ persisted = {}
    /\ upstream = <<>>
    /\ pc2 = "stopped"
    /\ last_timestamp2 = 0
    /\ most_recent_timestamp2 = 0
    /\ requests_list2 = <<>>
    /\ idx2 = 1
    /\ sent2 = <<>>
    /\ call = NoCall

\* the service receives a request and appends it to its list
Arrive ==
    /\ Len(upstream) < MaxBatch
    /\ \E e \in UpstreamEvents :
        /\ created_at_of(e) > LastArrival
        /\ \A v \in get_last_timestamp(timestamp_file) : created_at_of(e) > v
        /\ upstream' = Append(upstream, e)
    /\ UNCHANGED <<pc2, last_timestamp2, most_recent_timestamp2, requests_list2,
                   idx2, sent2, timestamp_file>>
    /\ UNCHANGED <<first, call>>

\* lines 197-216 in the first process: the response is {"data": upstream}
FetchUpstream ==
    /\ Fetch
    /\ fetch_status' = "envelope"
    /\ requests_list' = upstream

\* lines 153-193 in the second process, started without --start-from while
\* the first is running
Start2 ==
    /\ pc2 = "stopped"
    /\ pc # "stopped"
    /\ \E now \in Clock :
        last_timestamp2' = initial_timestamp(TsNone, timestamp_file, now)
    /\ most_recent_timestamp2' = last_timestamp2'
    /\ pc2' = "fetch"
    /\ UNCHANGED <<upstream, requests_list2, idx2, sent2, timestamp_file>>
    /\ UNCHANGED <<first, call>>

\* lines 197-216 in the second process
Fetch2 ==
    /\ pc2 = "fetch"
    /\ requests_list2' = upstream
    /\ pc2' = IF upstream = <<>> THEN "sleep" ELSE "iterate"
    /\ most_recent_timestamp2' = last_timestamp2
    /\ idx2' = 1
    /\ sent2' = <<>>
    /\ UNCHANGED <<upstream, last_timestamp2, timestamp_file>>
    /\ UNCHANGED <<first, call>>

\* lines 219-263 in the second process
Iterate2 ==
    /\ pc2 = "iterate"
    /\ idx2 <= Len(requests_list2)
    /\ LET req == requests_list2[idx2]
           created_at == created_at_of(req)
           message == extract_message(req)
       IN  IF ~has_created_at(req) \/ already_processed(created_at, last_timestamp2)
           THEN /\ idx2' = idx2 + 1
                /\ UNCHANGED <<pc2, most_recent_timestamp2, sent2>>
           ELSE /\ most_recent_timestamp2' = Max(created_at, most_recent_timestamp2)
                /\ IF raises(req)
                   THEN /\ pc2' = on_exception
                        /\ UNCHANGED <<idx2, sent2>>
                   ELSE IF is_valid_post_json_message(req) /\ truthy(message)
                   THEN /\ sent2' = Append(sent2, idx2)
                        /\ idx2' = idx2 + 1
                        /\ pc2' = pc2
                   ELSE /\ idx2' = idx2 + 1
                        /\ UNCHANGED <<pc2, sent2>>
    /\ UNCHANGED <<upstream, last_timestamp2, requests_list2, timestamp_file>>
    /\ UNCHANGED <<first, call>>

\* lines 265-270 in the second process
Advance2 ==
    /\ pc2 = "iterate"
    /\ idx2 > Len(requests_list2)
    /\ IF must_advance(most_recent_timestamp2, last_timestamp2)
       THEN /\ last_timestamp2' = most_recent_timestamp2
            /\ \E outcome \in SaveOutcomes :
                /\ timestamp_file' = save_timestamp(timestamp_file,
                                                    most_recent_timestamp2, outcome)
                /\ pc2' = IF outcome = "written" THEN "sleep" ELSE on_exception
       ELSE /\ pc2' = "sleep"
            /\ UNCHANGED <<last_timestamp2, timestamp_file>>
    /\ UNCHANGED <<upstream, most_recent_timestamp2, requests_list2, idx2, sent2>>
    /\ UNCHANGED <<first, call>>

\* line 281 in the second process
Sleep2 ==
    /\ pc2 = "sleep"
    /\ pc2' = "fetch"
    /\ most_recent_timestamp2' = last_timestamp2
    /\ requests_list2' = <<>>
    /\ idx2' = 1
    /\ sent2' = <<>>
    /\ UNCHANGED <<upstream, last_timestamp2, timestamp_file>>
    /\ UNCHANGED <<first, call>>

NextConcurrent ==
    \/ Arrive
    \/ FetchUpstream \/ Iterate \/ Advance \/ Sleep
    \/ Start2 \/ Fetch2 \/ Iterate2 \/ Advance2 \/ Sleep2

\* two engines on one timestamp file and one service
SpecConcurrent == InitConcurrent /\ [][NextConcurrent]_vars

----------------------------------------------------------------------------
(* Notions the claims use *)

running == pc # "stopped"

\* the current iteration's fetch returned an events list that was iterated
\* (or, empty, was not), and the iteration is over
IterationOver == pc = "sleep" /\ fetch_status = "envelope"

\* positions of the current batch whose event is newer than the watermark the
\* iteration started with
NewerAt == {j \in 1..Len(requests_list) :
              /\ has_created_at(requests_list[j])
              /\ created_at_of(requests_list[j]) > iter_start}

\* positions of the current batch that are owed a sink invocation
ForwardableAt == {j \in NewerAt : reaches_sink(requests_list[j])}

\* the instant the timestamp file holds, as a set
FileInstant == get_last_timestamp(timestamp_file)

----------------------------------------------------------------------------
(* C1 *)

\* C1: the watermark never decreases: within a run every step leaves
\* last_timestamp at least as great as it was, and, as long as no run is
\* started with --start-from, every value written to the timestamp file is
\* at least the value written before it (so at least every earlier one).
C1_WatermarkMonotone ==
    [][ /\ (running /\ pc' # "stopped") => last_timestamp' >= last_timestamp
        /\ \A w \in last_written, v \in last_written' : v >= w ]_vars

----------------------------------------------------------------------------
(* C2 *)

\* C2: no sink invocation is ever made for an event whose created_at is at
\* or below the watermark the iteration started with, eligible or not; when
\* the iteration is over and no event of the batch was newer, there was no
\* sink invocation, no write of the file, and the watermark is as it was.
C2_DedupRule ==
    /\ \A k \in 1..Len(sent) :
         /\ sent[k].idx \in 1..Len(requests_list)
         /\ created_at_of(requests_list[sent[k].idx]) > iter_start
    /\ (IterationOver /\ NewerAt = {}) =>
         /\ sent = <<>>
         /\ writes = 0
         /\ last_timestamp = iter_start

\* an iteration is over whose batch held an eligible event stamped exactly
\* with the watermark, and nothing newer
C2_Witness ==
    /\ IterationOver
    /\ NewerAt = {}
    /\ \E j \in 1..Len(requests_list) :
         /\ reaches_sink(requests_list[j])
         /\ created_at_of(requests_list[j]) = iter_start
    /\ sent = <<>>

----------------------------------------------------------------------------
(* C3 *)

\* the members of a set of positions, in increasing order
RECURSIVE InOrder(_)
InOrder(S) ==
    IF S = {} THEN <<>>
    ELSE LET m == CHOOSE x \in S : \A y \in S : x <= y
         IN  <<m>> \o InOrder(S \ {m})

\* the positions of this iteration's sink invocations, in the order made
SentAt == [k \in 1..Len(sent) |-> sent[k].idx]

\* C3: when an iteration whose fetch returned an events list is over, its
\* sink invocations are exactly the batch's events that are newer than the
\* watermark at the start and eligible with an extractable payload: one
\* invocation each, in batch order, each handing over the event's message.
C3_ForwardExactlyOnceInOrder ==
    IterationOver =>
        /\ SentAt = InOrder(ForwardableAt)
        /\ \A k \in 1..Len(sent) :
             sent[k].text = extract_message(requests_list[sent[k].idx]).str

----------------------------------------------------------------------------
(* C4 *)

\* the newer forwardable events of the fetched batches of this run whose sink
\* invocation has not been attempted (of the earlier batches, the earliest)
Unattempted ==
    skipped \cup (IF pc = "iterate" THEN Owed(requests_list, idx, iter_start) ELSE {})

\* C4: the file is advanced only after the batch is fully handled: whenever
\* the file holds a value this run wrote, every newer eligible event of a
\* fetched batch stamped at or below that value has had its sink invocation
\* attempted; the file is written only once the loop over the batch is
\* through; and an iteration that advanced the watermark has made its write
\* by the time the next fetch is issued.
C4_AdvanceAfterBatch ==
    /\ [](run_wrote =>
            \A v \in FileInstant : \A e \in Unattempted : created_at_of(e) > v)
    /\ [][ /\ writes' = writes + 1 => (pc = "iterate" /\ idx > Len(requests_list))
           /\ (pc = "sleep" /\ pc' = "fetch" /\ last_timestamp > iter_start)
                 => writes = 1 ]_vars

----------------------------------------------------------------------------
(* C5 *)

\* C5: an iteration writes the timestamp file exactly once if some event of
\* the fetched batch is newer than the watermark at its start, eligible or
\* not, and not at all otherwise.
C5_OneWritePerNewerBatch ==
    /\ writes \in {0, 1}
    /\ IterationOver => writes = (IF NewerAt # {} THEN 1 ELSE 0)
    /\ (pc = "sleep" /\ fetch_status \in {"error", "object"}) => writes = 0

----------------------------------------------------------------------------
(* C6 *)

\* the greatest created_at of the current batch, or the starting watermark
RECURSIVE MaxCreatedAt(_, _)
MaxCreatedAt(b, wm) ==
    IF b = <<>> THEN wm
    ELSE MaxCreatedAt(Tail(b),
                      IF has_created_at(Head(b)) THEN Max(wm, created_at_of(Head(b)))
                      ELSE wm)

\* C6: when an iteration whose fetch returned an events list is over, the
\* watermark is the maximum of the starting watermark and every created_at of
\* the batch, eligible or not; a batch without newer eligible event has no
\* sink invocation; and a GET followed by a newer eligible POST carrying
\* "hi" makes the sink receive "hi", once.
C6_AdvanceToBatchMaximum ==
    IterationOver =>
        /\ last_timestamp = MaxCreatedAt(requests_list, iter_start)
        /\ ForwardableAt = {} => sent = <<>>
        /\ ( /\ Len(requests_list) = 2
             /\ requests_list[1].method = MethodStr("GET")
             /\ requests_list[2].method = MethodStr("POST")
             /\ body_of(requests_list[2]) = StrBody(JsonObject(StrVal(hi)))
             /\ 2 \in NewerAt )
           => (Len(sent) = 1 /\ sent[1].idx = 2 /\ sent[1].text = hi)

----------------------------------------------------------------------------
(* C7 *)

\* positions of the current batch whose sink invocation failed
FailedAt == {sent[k].idx : k \in {j \in 1..Len(sent) : ~sent[j].ok}}

\* C7: a sink failure neither aborts the batch nor holds the watermark back:
\* when an iteration with a failed sink invocation is over, every newer
\* eligible event after the failed one has been forwarded, no event was
\* forwarded twice, an iteration that came to its end has the watermark at
\* the batch maximum (what it is when every invocation succeeds), and the
\* failed event is at or below the watermark, so that no later iteration
\* forwards it again.
C7_SinkFailureIsPerEvent ==
    (pc = "sleep" /\ FailedAt # {}) =>
        /\ \A f \in FailedAt : \A j \in ForwardableAt :
             j > f => \E k \in 1..Len(sent) : sent[k].idx = j
        /\ \A k, l \in 1..Len(sent) : sent[k].idx = sent[l].idx => k = l
        /\ ~aborted => last_timestamp = MaxCreatedAt(requests_list, iter_start)
        /\ \A f \in FailedAt : created_at_of(requests_list[f]) <= last_timestamp

----------------------------------------------------------------------------
(* C8 *)

\* the event is malformed: bad timestamp, body that is no JSON, no "message",
\* method or message missing or no string
malformed(request) ==
    \/ request.created_at.fmt \in {"bad", "none"}
    \/ request.method.kind # "str"
    \/ body_of(request).json.type # "object"
    \/ ~body_of(request).json.has_message
    \/ body_of(request).json.message.type # "str"

\* C8: a malformed event is skipped and nothing more: no sink invocation is
\* made for it, no iteration is aborted by an event (only a failed write of
\* the file can end one in the exception handler), and when the iteration is
\* over every newer eligible event of the batch has been forwarded and the
\* watermark is the batch maximum.
C8_MalformedEventIsSkipped ==
    /\ \A k \in 1..Len(sent) : ~malformed(requests_list[sent[k].idx])
    /\ (fetch_status = "envelope" /\ aborted) => writes = 1
    /\ IterationOver =>
         /\ \A j \in ForwardableAt : \E k \in 1..Len(sent) : sent[k].idx = j
         /\ last_timestamp = MaxCreatedAt(requests_list, iter_start)

----------------------------------------------------------------------------
(* C9 *)

\* C9: a failed fetch is recoverable: the step that fails goes to the sleep
\* step with no sink invocation and no write, leaving last_timestamp and the
\* timestamp file as they were; the sleep step that follows leaves them too
\* and leads to the next fetch (or, on KeyboardInterrupt, out of the loop).
C9_FailedFetchIsRecoverable ==
    [][ /\ (pc = "fetch" /\ fetch_status' = "error") =>
              /\ pc' = "sleep"
              /\ sent' = <<>>
              /\ writes' = 0
              /\ last_timestamp' = last_timestamp
              /\ timestamp_file' = timestamp_file
        /\ (pc = "sleep" /\ fetch_status = "error") =>
              /\ pc' = "fetch" \/ (pc' = "stopped" /\ cancelled')
              /\ last_timestamp' = last_timestamp
              /\ timestamp_file' = timestamp_file ]_vars

\* a fetch has failed and the engine is at the sleep step
C9_Witness == pc = "sleep" /\ fetch_status = "error" /\ ~cancelled

----------------------------------------------------------------------------
(* C10 *)

----------------------------------------------------------------------------
(* C11 *)

\* the for loop of main run on the events list b from position k with the
\* cursor wm: the positions handed to print_message, in order, up to the
\* first event that raises
RECURSIVE loop_sends(_, _, _)
loop_sends(b, k, wm) ==
    IF k > Len(b) THEN <<>>
    ELSE IF ~newer(b[k], wm) THEN loop_sends(b, k + 1, wm)
    ELSE IF raises(b[k]) THEN <<>>
    ELSE IF reaches_sink(b[k]) THEN <<k>> \o loop_sends(b, k + 1, wm)
    ELSE loop_sends(b, k + 1, wm)

\* some event of b makes the loop body raise
loop_raises(b, wm) == \E k \in 1..Len(b) : newer(b[k], wm) /\ raises(b[k])

\* last_timestamp after the loop and the advance step on b
loop_watermark(b, wm) == IF loop_raises(b, wm) THEN wm ELSE MaxCreatedAt(b, wm)

\* C11: a response that is the top-level array L and a response that is the
\* envelope {"data": L} have the same outcome: when the iteration is at the
\* sleep step, its sink invocations and its watermark are those of the loop
\* on L, whichever of the two shapes carried L.
C11_ArrayAsEnvelope ==
    /\ (pc = "sleep" /\ fetch_status = "envelope") =>
          /\ SentAt = loop_sends(requests_list, 1, iter_start)
          /\ last_timestamp = loop_watermark(requests_list, iter_start)
    /\ (pc = "sleep" /\ fetch_status = "array") =>
          /\ Len(sent) = Len(loop_sends(fetched, 1, iter_start))
          /\ last_timestamp = loop_watermark(fetched, iter_start)

\* the envelope half of C11_ArrayAsEnvelope, for the response shape that
\* the loop does iterate
C11_EnvelopeOutcome ==
    (pc = "sleep" /\ fetch_status = "envelope") =>
          /\ SentAt = loop_sends(requests_list, 1, iter_start)
          /\ last_timestamp = loop_watermark(requests_list, iter_start)

----------------------------------------------------------------------------
(* C12 *)

\* C12: the engine run twice over the same batch is idempotent: when an
\* iteration over a batch has written the advanced watermark, the run is
\* stopped and started again without --start-from, and the first fetch
\* returns the same batch, that iteration makes no sink invocation and no
\* write, does not end in the exception handler, and leaves last_timestamp
\* and the timestamp file as the earlier iteration left them.
C12_RestartIsIdempotent ==
    \A p \in persisted : p.again =>
        /\ requests_list = p.batch
        /\ sent = <<>>
        /\ writes = 0
        /\ ~aborted
        /\ last_timestamp = MaxCreatedAt(p.batch, last_timestamp)
        /\ last_timestamp = iter_start
        /\ timestamp_file = FileText(isoformat(last_timestamp))

\* the restarted run is through the batch, which holds an event that the
\* earlier iteration handed to the sink
C12_Witness ==
    /\ pc = "sleep"
    /\ \E p \in persisted :
         /\ p.again
         /\ \E j \in 1..Len(p.batch) : reaches_sink(p.batch[j])
                                        /\ created_at_of(p.batch[j]) = last_timestamp

----------------------------------------------------------------------------
(* C13 *)

\* C13: the starting cursor is resolved by precedence: when --start-from is
\* given, last_timestamp is the instant it is parsed to, whatever the
\* timestamp file holds; otherwise it is the instant of the timestamp file
\* when the file exists and parses; otherwise (file absent or unreadable) it
\* is the startup clock minus the lookback of one minute; and startup ends
\* at the first fetch in each case.
C13_StartupPrecedence ==
    \A a \in started_with :
        /\ pc = "fetch"
        /\ a.start_from.fmt # "none" =>
              last_timestamp = parse_webhook_timestamp(a.start_from)
        /\ (a.start_from.fmt = "none" /\ FileInstant # {}) =>
              last_timestamp \in FileInstant
        /\ (a.start_from.fmt = "none" /\ FileInstant = {}) =>
              last_timestamp = a.now - Lookback

\* a startup with a well-formed --start-from has ended while the timestamp
\* file holds another instant
C13_Witness ==
    \E a \in started_with :
        /\ a.start_from.fmt = "T"
        /\ FileInstant # {}
        /\ last_timestamp \notin FileInstant
        /\ last_timestamp = a.start_from.t

----------------------------------------------------------------------------
(* C14 *)

\* C14: cancellation is cooperative: the step that ends a run is taken
\* between iterations, never while a batch is being iterated, and when it is
\* taken every newer eligible event of the batch whose processing had started
\* has been handed to the sink and no advance of the watermark is pending.
C14_CancellationIsCooperative ==
    [][ (running /\ pc' = "stopped") =>
            /\ pc \in {"fetch", "sleep"}
            /\ Owed(requests_list, idx, iter_start) = {}
            /\ ~must_advance(most_recent_timestamp, last_timestamp) ]_vars

----------------------------------------------------------------------------
(* C15 *)

\* C15: a second process started without --start-from while the first is
\* running resumes from the persisted watermark, and in every interleaving
\* of the two: no event stamped at or below the value the timestamp file
\* holds is handed to the sink (by either process), a process that is
\* through its batch has forwarded every eligible event of it that was newer
\* than its cursor, and the instant in the timestamp file never decreases.
C15_ConcurrentRestart ==
    [][ /\ (pc2 = "stopped" /\ pc2' = "fetch") =>
              \A v \in FileInstant : last_timestamp2' = v
        /\ Len(sent') > Len(sent) =>
              \A v \in FileInstant : created_at_of(requests_list[idx]) > v
        /\ Len(sent2') > Len(sent2) =>
              \A v \in FileInstant : created_at_of(requests_list2[idx2]) > v
        /\ (pc = "iterate" /\ pc' = "sleep") =>
              \A j \in ForwardableAt : \E k \in 1..Len(sent) : sent[k].idx = j
        /\ (pc2 = "iterate" /\ pc2' = "sleep") =>
              \A j \in 1..Len(requests_list2) :
                  (newer(requests_list2[j], last_timestamp2)
                   /\ reaches_sink(requests_list2[j]))
                  => \E k \in 1..Len(sent2) : sent2[k] = j
        /\ \A v \in FileInstant, w \in FileInstant' : w >= v ]_vars

----------------------------------------------------------------------------
(* C16 *)

\* C16: the text print_message hands to the sink: the message unchanged when
\* max_length <= 0 or the message is no longer than max_length; otherwise
\* its first max_length - 3 characters followed by "...", of length
\* max_length exactly, for every max_length > 0.
C16_MessagePreparation ==
    call.fn = "print_message" =>
        IF call.max_length <= 0 \/ Len(call.message) <= call.max_length
        THEN call.result = call.message
        ELSE /\ call.result = SubSeq(call.message, 1, call.max_length - 3)
                                 \o <<".", ".", ".">>
             /\ Len(call.result) = call.max_length

----------------------------------------------------------------------------
(* C17 *)

\* C17: is_valid_post_json_message never raises and returns a boolean, which
\* is TRUE exactly when the method is "POST" in any letter case, the body
\* taken from content or body is not empty, it parses as JSON (or is parsed
\* already), and the JSON value is an object with a "message" field, of
\* whatever type its value.
C17_IsEligible ==
    call.fn = "is_valid_post_json_message" =>
        /\ ~call.raised
        /\ call.result \in BOOLEAN
        /\ call.result <=>
              /\ call.request.method.kind = "str"
              /\ call.request.method.val \in {"POST", "post"}
              /\ ~body_of(call.request).empty
              /\ body_of(call.request).json.type = "object"
              /\ body_of(call.request).json.has_message

----------------------------------------------------------------------------
(* C18 *)

\* C18: a created_at string that does not parse gives the sentinel instant,
\* and the loop takes such an event as already seen wherever the watermark
\* came from: the step of the loop body on it hands nothing to the sink,
\* leaves most_recent_timestamp (so the watermark) as it was, does not end
\* the iteration, and goes on to the next event.
C18_MalformedTimestampIsSeen ==
    [][ ( /\ pc = "iterate"
          /\ idx <= Len(requests_list)
          /\ requests_list[idx].created_at.fmt = "bad"
          /\ pc' # "stopped" )
        => /\ created_at_of(requests_list[idx]) = Sentinel
           /\ pc' = "iterate"
           /\ idx' = idx + 1
           /\ sent' = sent
           /\ most_recent_timestamp' = most_recent_timestamp ]_vars

----------------------------------------------------------------------------
(* C19 *)

\* the events lists that hold the events of b in another order
Reorderings(b) ==
    LET n == Len(b)
        Bijections == {f \in [1..n -> 1..n] : \A i, j \in 1..n : f[i] = f[j] => i = j}
    IN  {[j \in 1..n |-> b[f[j]]] : f \in Bijections}

\* the events a sequence of positions of b stands for
EventsAt(b, positions) == {b[positions[k]] : k \in 1..Len(positions)}

\* C19: every event of a batch is compared with the watermark the iteration
\* started with, so the order of the batch does not matter: when an
\* iteration is over, the events it handed to the sink and its watermark
\* are those the loop gives on every reordering of the batch, and a newer
\* eligible event that comes after an event with a later created_at has
\* been forwarded.
C19_OrderOfBatchIsIrrelevant ==
    IterationOver =>
        /\ \A q \in Reorderings(requests_list) :
             /\ EventsAt(requests_list, SentAt)
                  = EventsAt(q, loop_sends(q, 1, iter_start))
             /\ last_timestamp = loop_watermark(q, iter_start)
        /\ \A j \in ForwardableAt :
             (\E i \in 1..(j - 1) : created_at_of(requests_list[i])
                                      > created_at_of(requests_list[j]))
             => \E k \in 1..Len(sent) : sent[k].idx = j

----------------------------------------------------------------------------
(* C20 *)

\* C20: the timestamp file is touched by the advance step only: a step that
\* changes the file or calls save_timestamp is the step after the loop of
\* an iteration whose batch held an event newer than the watermark it
\* started with; the fetch step (failed, empty, or without events list),
\* the sleep step and the step that ends the run leave the file as it is;
\* and once the run loop is entered last_timestamp is never taken from the
\* file again, only from most_recent_timestamp.
C20_FileFrame ==
    [][ /\ (timestamp_file' # timestamp_file \/ writes' = writes + 1) =>
              /\ pc = "iterate"
              /\ idx > Len(requests_list)
              /\ NewerAt # {}
              /\ most_recent_timestamp > iter_start
        /\ (pc \in {"fetch", "sleep"} \/ pc' = "stopped") =>
              timestamp_file' = timestamp_file
        /\ running =>
              last_timestamp' \in {last_timestamp, most_recent_timestamp} ]_vars

\* a run has been cancelled while its watermark was ahead of the instant in
\* the timestamp file, and the file still holds that instant
C20_Witness ==
    /\ pc = "stopped"
    /\ cancelled
    /\ FileInstant # {}
    /\ \A v \in FileInstant : last_timestamp > v

----------------------------------------------------------------------------
(* C21 *)

\* the step is the advance step calling save_timestamp (line 268)
Saves == writes' = writes + 1

\* the step is a run starting without --start-from after a cancelled run
\* whose last_timestamp was ahead of the instant f in the timestamp file
RestartsBehind(f) ==
    /\ pc = "stopped"
    /\ cancelled
    /\ pc' = "fetch"
    /\ \A s \in started_with' : s.start_from.fmt = "none"
    /\ FileInstant = {f}
    /\ f < last_timestamp

\* the parts of C21_WriteFollowsMemory about the order of the assignment
\* and the write, the retry, and the restart
C21_MemoryAheadOfFile ==
    /\ [](run_wrote => \A v \in FileInstant : last_timestamp >= v)
    /\ [][ /\ (running /\ pc' # "stopped") => last_timestamp' >= last_timestamp
           /\ (Saves /\ ~aborted') =>
                 /\ last_timestamp' = most_recent_timestamp
                 /\ timestamp_file' = FileText(isoformat(last_timestamp'))
                 /\ get_last_timestamp(timestamp_file') = {last_timestamp'}
           /\ (Saves /\ aborted') =>
                 /\ last_timestamp' = most_recent_timestamp
                 /\ last_timestamp' > last_timestamp
           /\ Saves =>
                 \E j \in 1..Len(requests_list) :
                     /\ has_created_at(requests_list[j])
                     /\ created_at_of(requests_list[j]) > last_timestamp
           /\ \A f \in FileInstant : RestartsBehind(f) =>
                 /\ last_timestamp' = f
                 /\ \A e \in Events :
                       (reaches_sink(e) /\ f < created_at_of(e)
                                        /\ created_at_of(e) <= last_timestamp)
                       => loop_sends(<<e>>, 1, last_timestamp') = <<1>> ]_vars

\* C21: last_timestamp is assigned before the timestamp file is written:
\* a save that succeeds leaves in the file the value last_timestamp has just
\* been given, and while a run has written the file last_timestamp is at
\* least the instant in it (last_timestamp never decreases in a run, so at
\* least every value the run wrote); a save that fails leaves last_timestamp
\* advanced and the file as it was before the step; save_timestamp is called
\* again only for a batch with an event newer than the advanced
\* last_timestamp; and a run restarted without --start-from while the file
\* is behind starts from the file's instant and forwards again a
\* forwardable event stamped between that instant and the earlier run's
\* last_timestamp.
C21_WriteFollowsMemory ==
    /\ C21_MemoryAheadOfFile
    /\ [][ (Saves /\ aborted') => timestamp_file' = timestamp_file ]_vars

====
